---- MODULE Spec2Model ----
(***************************************************************************)
(* The n-step reward-tracing cache of coax (coax/reward_tracing/_nstep.py) *)
(* as a state machine: one NStepCache instance driven by an arbitrary      *)
(* sequence of reset(), add(s, a, r, done, logp) and pop() calls (Spec),    *)
(* and the TD target of coax/td_learning/_simple_td.py with the updates of  *)
(* its test case (SpecTD).                                                  *)
(*                                                                         *)
(* Floats are modelled as exact rationals <<numerator, denominator>> in    *)
(* lowest terms, so gamma^k and the discounted sums are exact.             *)
(***************************************************************************)
EXTENDS Integers, Sequences, FiniteSets, TLC

\* ------------------------------------------------------------------ bounds

\* largest n an instance is constructed with
MaxN == 2
\* most steps accepted by add() between two resets
MaxAdds == 3

\* ------------------------------------------------------------------ inputs

\* gamma : float between 0 and 1 (0, 0.5, 0.9 and 1)
GammaValues == {<<0, 1>>, <<1, 2>>, <<9, 10>>, <<1, 1>>}
\* (s, a, logp) of a step; logp = 0 is the default of add()
SapValues == {<<11, 21, 0>>, <<12, 22, -1>>}
\* rewards
RewardValues == {1, 2}

\* ------------------------------------------------------------- arithmetic

Min(x, y) == IF x <= y THEN x ELSE y

Abs(x) == IF x < 0 THEN -x ELSE x

RECURSIVE GCD(_, _)
GCD(x, y) == IF y = 0 THEN x ELSE GCD(y, x % y)

\* a rational in lowest terms with a positive denominator
Rat(num, den) ==
    LET g == GCD(Abs(num), Abs(den))
    IN  <<num \div g, den \div g>>

RatAdd(p, q) == Rat(p[1] * q[2] + q[1] * p[2], p[2] * q[2])

RatMul(p, q) == Rat(p[1] * q[1], p[2] * q[2])

\* onp.power(x, k) for an integer k >= 0
RECURSIVE Power(_, _)
Power(x, k) == IF k = 0 THEN <<1, 1>> ELSE RatMul(x, Power(x, k - 1))

\* onp.arange(k): 0, 1, .., k-1
Arange(k) == [i \in 1..k |-> i - 1]

\* zip(xs, ys): pairs up to the shorter of the two
Zip(xs, ys) == [i \in 1..Min(Len(xs), Len(ys)) |-> <<xs[i], ys[i]>>]

\* islice(xs, k): the first k elements, fewer if xs is shorter
ISlice(xs, k) == SubSeq(xs, 1, Min(k, Len(xs)))

\* sum(x * r for x, r in pairs), starting from 0
RECURSIVE SumProducts(_)
SumProducts(pairs) ==
    IF pairs = <<>> THEN <<0, 1>>
    ELSE RatAdd(SumProducts(SubSeq(pairs, 1, Len(pairs) - 1)),
                RatMul(pairs[Len(pairs)][1], <<pairs[Len(pairs)][2], 1>>))

\* ------------------------------------------------------------------ state

VARIABLES
    n,          \* self.n
    gamma,      \* self.gamma
    deque_sap,  \* self._deque_sap: queue of (s, a, logp)
    deque_r,    \* self._deque_r: queue of rewards
    done,       \* self._done
    gammas,     \* self._gammas
    gamman,     \* self._gamman
    pre,        \* the fields of the cache when the last call started
    last,       \* the last call: its name, the error raised, the TransitionSingle
                \* built and the batch returned
    hist,       \* the steps accepted by add() since the last reset, in order
    pops,       \* the number of pops that returned since the last reset
    td,         \* the SimpleTD updater, its v and v_targ, and the locals of its test
    dm          \* the DynamicsModel last constructed and the outcome of its last call

cacheVars == <<n, gamma, deque_sap, deque_r, done, gammas, gamman, pre, last, hist, pops>>

vars == <<n, gamma, deque_sap, deque_r, done, gammas, gamman, pre, last, hist, pops, td, dm>>

\* ---------------------------------------------------------------- NStepCache

\* __len__
CacheLen == Len(deque_sap)

\* mutant: ready one entry too late
CacheBool_OneLate == (CacheLen # 0) /\ (done \/ CacheLen > n + 1)

\* mutant: ready as soon as n entries are buffered
CacheBool_AtLeastN == (CacheLen # 0) /\ (done \/ CacheLen >= n)

\* mutant: the end of the episode does not make the cache ready
CacheBool_IgnoresDone == (CacheLen # 0) /\ (CacheLen > n)

\* __bool__
CacheBool == (CacheLen # 0) /\ (done \/ CacheLen > n)

\* the state a call starts in
Snapshot == [sap |-> deque_sap, r |-> deque_r, done |-> done, n |-> n, gamma |-> gamma]

\* the discount weights reset() computes
ResetGammas == [i \in 1..n |-> Power(gamma, Arange(n)[i])]

\* mutant: the last of the n weights taken for gamma^n
ResetGamman_LastWeight == Power(gamma, n - 1)

ResetGamman == Power(gamma, n)

\* mutant: reset() clears the queues and leaves the done flag as it is
Reset_KeepsDone ==
    /\ deque_sap' = <<>>
    /\ deque_r' = <<>>
    /\ gammas' = ResetGammas
    /\ gamman' = ResetGamman
    /\ pre' = Snapshot
    /\ last' = [op |-> "reset", err |-> "none", single |-> <<>>, ret |-> <<>>]
    /\ hist' = <<>>
    /\ pops' = 0
    /\ UNCHANGED <<n, gamma, done, td, dm>>

\* reset()
Reset ==
    /\ deque_sap' = <<>>
    /\ deque_r' = <<>>
    /\ done' = FALSE
    /\ gammas' = ResetGammas
    /\ gamman' = ResetGamman
    /\ pre' = Snapshot
    /\ last' = [op |-> "reset", err |-> "none", single |-> <<>>, ret |-> <<>>]
    /\ hist' = <<>>
    /\ pops' = 0
    /\ UNCHANGED <<n, gamma, td, dm>>

\* mutant: the done flag of a drained episode still blocks add()
AddRaises_StaleDone == done

\* mutant: add() refuses whenever the cache is ready to be popped
AddRaises_WhenReady == CacheBool

\* add(s, a, r, done, logp) raises EpisodeDoneError
AddRaises == done /\ (CacheLen # 0)

\* mutant: the step is put at the head of the queues
Add_AppendLeft(s, a, r, d, logp) ==
    /\ pre' = Snapshot
    /\ IF AddRaises
       THEN /\ last' = [op |-> "add", err |-> "EpisodeDoneError", single |-> <<>>, ret |-> <<>>]
            /\ UNCHANGED <<deque_sap, deque_r, done, hist>>
       ELSE /\ Len(hist) < MaxAdds
            /\ deque_sap' = <<<<s, a, logp>>>> \o deque_sap
            /\ deque_r' = <<r>> \o deque_r
            /\ done' = d
            /\ last' = [op |-> "add", err |-> "none", single |-> <<>>, ret |-> <<>>]
            /\ hist' = Append(hist, [s |-> s, a |-> a, logp |-> logp, r |-> r, done |-> d])
    /\ UNCHANGED <<n, gamma, gammas, gamman, pops, td, dm>>

\* mutant: the step is appended before the episode-done check
Add_AppendsBeforeRaise(s, a, r, d, logp) ==
    /\ pre' = Snapshot
    /\ deque_sap' = Append(deque_sap, <<s, a, logp>>)
    /\ deque_r' = Append(deque_r, r)
    /\ IF AddRaises
       THEN /\ last' = [op |-> "add", err |-> "EpisodeDoneError", single |-> <<>>, ret |-> <<>>]
            /\ UNCHANGED <<done, hist>>
       ELSE /\ Len(hist) < MaxAdds
            /\ done' = d
            /\ last' = [op |-> "add", err |-> "none", single |-> <<>>, ret |-> <<>>]
            /\ hist' = Append(hist, [s |-> s, a |-> a, logp |-> logp, r |-> r, done |-> d])
    /\ UNCHANGED <<n, gamma, gammas, gamman, pops, td, dm>>

\* add(s, a, r, done, logp); the model accepts at most MaxAdds steps per reset
Add(s, a, r, d, logp) ==
    /\ pre' = Snapshot
    /\ IF AddRaises
       THEN /\ last' = [op |-> "add", err |-> "EpisodeDoneError", single |-> <<>>, ret |-> <<>>]
            /\ UNCHANGED <<deque_sap, deque_r, done, hist>>
       ELSE /\ Len(hist) < MaxAdds
            /\ deque_sap' = Append(deque_sap, <<s, a, logp>>)
            /\ deque_r' = Append(deque_r, r)
            /\ done' = d
            /\ last' = [op |-> "add", err |-> "none", single |-> <<>>, ret |-> <<>>]
            /\ hist' = Append(hist, [s |-> s, a |-> a, logp |-> logp, r |-> r, done |-> d])
    /\ UNCHANGED <<n, gamma, gammas, gamman, pops, td, dm>>

\* q[i] of a Python deque: i counts from 0, a negative i counts from the end
IndexInRange(q, i) == IF i >= 0 THEN i < Len(q) ELSE -i <= Len(q)

DequeAt(q, i) == IF i >= 0 THEN q[i + 1] ELSE q[Len(q) + i + 1]

\* mutant: the return summed after the reward queue has been popped
PartialReturn_AfterPopleft == SumProducts(ISlice(Zip(gammas, Tail(deque_r)), n))

\* the n-step partial return, computed before the reward queue is popped
PartialReturn == SumProducts(ISlice(Zip(gammas, deque_r), n))

\* mutant: once the episode is done every pop takes the terminal branch
HasBootstrap_UnlessDone(rest) == ~done /\ Len(rest) >= n

\* mutant: the condition counts the entry that has just been popped
HasBootstrap_BeforePopleft(rest) == Len(rest) + 1 >= n

\* mutant: exactly n remaining entries are not enough to bootstrap
HasBootstrap_Strict(rest) == Len(rest) > n

\* the condition of the bootstrap branch, evaluated on the queue after popleft
HasBootstrap(rest) == Len(rest) >= n

\* mutant: the anchor read one position too far
AnchorIndex_OffByOne == n

\* the queue position of the bootstrap anchor after popleft
AnchorIndex == n - 1

\* TransitionSingle(...).to_batch(gamma): Rn is the transition's r, In is gamma
\* for a non-terminal transition and 0 for a terminal one
ToBatch(tr, g) ==
    [S |-> tr.s, A |-> tr.a, logP |-> tr.logp,
     Rn |-> tr.r, In |-> IF tr.done THEN <<0, 1>> ELSE g,
     S_next |-> tr.s_next, A_next |-> tr.a_next, logP_next |-> tr.logp_next]

\* mutant: the terminal branch takes the newest buffered step as the anchor
PopTransition_NewestAnchor(sap, rn, rest) ==
    IF HasBootstrap(rest)
    THEN [s |-> sap[1], a |-> sap[2], logp |-> sap[3], r |-> rn, done |-> FALSE,
          s_next |-> DequeAt(rest, AnchorIndex)[1],
          a_next |-> DequeAt(rest, AnchorIndex)[2],
          logp_next |-> DequeAt(rest, AnchorIndex)[3]]
    ELSE LET anchor == IF rest = <<>> THEN sap ELSE DequeAt(rest, -1)
         IN  [s |-> sap[1], a |-> sap[2], logp |-> sap[3], r |-> rn, done |-> TRUE,
              s_next |-> anchor[1], a_next |-> anchor[2], logp_next |-> anchor[3]]

\* the transition pop() builds from the popped step, rn and the rest of the queue
PopTransition(sap, rn, rest) ==
    IF HasBootstrap(rest)
    THEN [s |-> sap[1], a |-> sap[2], logp |-> sap[3], r |-> rn, done |-> FALSE,
          s_next |-> DequeAt(rest, AnchorIndex)[1],
          a_next |-> DequeAt(rest, AnchorIndex)[2],
          logp_next |-> DequeAt(rest, AnchorIndex)[3]]
    ELSE [s |-> sap[1], a |-> sap[2], logp |-> sap[3], r |-> rn, done |-> TRUE,
          s_next |-> sap[1], a_next |-> sap[2], logp_next |-> sap[3]]

\* pop()
Pop ==
    /\ pre' = Snapshot
    /\ IF ~CacheBool
       THEN /\ last' = [op |-> "pop", err |-> "InsufficientCacheError", single |-> <<>>, ret |-> <<>>]
            /\ UNCHANGED <<deque_sap, deque_r, pops>>
       ELSE LET sap == Head(deque_sap)
                rest == Tail(deque_sap)
                rn == PartialReturn
            IN  /\ deque_sap' = rest
                /\ deque_r' = Tail(deque_r)
                /\ IF HasBootstrap(rest) /\ ~IndexInRange(rest, AnchorIndex)
                   THEN /\ last' = [op |-> "pop", err |-> "IndexError", single |-> <<>>, ret |-> <<>>]
                        /\ UNCHANGED pops
                   ELSE /\ last' = [op |-> "pop", err |-> "none",
                                    single |-> <<PopTransition(sap, rn, rest)>>,
                                    ret |-> <<ToBatch(PopTransition(sap, rn, rest), gamman)>>]
                        /\ pops' = pops + 1
    /\ UNCHANGED <<n, gamma, done, gammas, gamman, hist, td, dm>>

\* __init__(env, n, gamma): stores int(n) and float(gamma) and calls reset()
InitCache(nn, g) ==
    /\ n = nn
    /\ gamma = g
    /\ deque_sap = <<>>
    /\ deque_r = <<>>
    /\ done = FALSE
    /\ gammas = ResetGammas
    /\ gamman = ResetGamman
    /\ pre = Snapshot
    /\ last = [op |-> "init", err |-> "none", single |-> <<>>, ret |-> <<>>]
    /\ hist = <<>>
    /\ pops = 0

\* no updater has been constructed
NoTD == [pc |-> "none"]

\* no dynamics model is constructed
NoDM == [pc |-> "none"]

\* n : positive int
Init == \E nn \in 1..MaxN, g \in GammaValues : InitCache(nn, g) /\ td = NoTD /\ dm = NoDM

\* n as any integer >= 0 that int(n) accepts without a check
InitAnyN == \E nn \in 0..MaxN, g \in GammaValues : InitCache(nn, g) /\ td = NoTD /\ dm = NoDM

Next ==
    \/ Reset
    \/ \E sap \in SapValues, r \in RewardValues, d \in BOOLEAN :
           Add(sap[1], sap[2], r, d, sap[3])
    \/ Pop

Spec == Init /\ [][Next]_vars

SpecAnyN == InitAnyN /\ [][Next]_vars

\* ------------------------------------------------------------------ SimpleTD

RatNeg(p) == <<-p[1], p[2]>>

RatSub(p, q) == RatAdd(p, RatNeg(q))

RatLess(p, q) == p[1] * q[2] < q[1] * p[2]

\* the functions a value transform is made of
ApplyFunc(name, x) ==
    CASE name = "identity" -> x
      [] name = "double" -> RatMul(<<2, 1>>, x)
      [] name = "halve" -> RatMul(<<1, 2>>, x)

\* value_transform : ValueTransform or pair of funcs, optional; <<>> is None
ValueTransformArgs == {<<>>, <<"double", "halve">>, <<"halve", "double">>}

\* the (f, f_inv) the updater keeps: the identity pair when none is supplied
ValueTransform(arg) == IF arg = <<>> THEN <<"identity", "identity">> ELSE arg

\* trainable parameters and function state of a value function
ParamValues == {<<1, 2>>, <<1, 4>>}

StateValues == {0, 3}

\* transition batches (S, A, logP, Rn, In, S_next, A_next, logP_next)
BatchValues ==
    [S : {1, 2}, A : {21}, logP : {0}, Rn : {<<3, 1>>, <<5, 2>>},
     In : {<<0, 1>>, <<1, 4>>}, S_next : {1, 2}, A_next : {22}, logP_next : {-1}]

\* the fields of a TransitionBatch in order
BatchTuple(b) == <<b.S, b.A, b.logP, b.Rn, b.In, b.S_next, b.A_next, b.logP_next>>

\* seq[a:b] of Python: positions a..b-1, counted from 0
PySlice(seq, a, b) == SubSeq(seq, a + 1, Min(b, Len(seq)))

\* v.function(params, state, rng, S, is_training): the value at S and the new
\* function state, whose running statistics move only in training mode
VFunction(params, state, rng, S, is_training) ==
    <<RatMul(params, <<S, 1>>), IF is_training THEN state + S ELSE state>>

\* mutant: the target network is evaluated in training mode
TargetEval_Training(target_params, target_state, rng, transition_batch) ==
    VFunction(target_params.v_targ, target_state.v_targ, rng,
              PySlice(transition_batch, 3, 6)[3], TRUE)

\* self.v_targ.function(params, state, rng, S_next, False): the value at S_next and
\* the function state the evaluation hands back
TargetEval(target_params, target_state, rng, transition_batch) ==
    VFunction(target_params.v_targ, target_state.v_targ, rng,
              PySlice(transition_batch, 3, 6)[3], FALSE)

\* mutant: the bootstrap term is added whatever In says
TargetFunc_AlwaysBootstraps(target_params, target_state, rng, transition_batch) ==
    LET sl == PySlice(transition_batch, 3, 6)
        V_next == TargetEval(target_params, target_state, rng, transition_batch)[1]
        f == td.value_transform[1]
        f_inv == td.value_transform[2]
    IN  ApplyFunc(f, RatAdd(sl[1], ApplyFunc(f_inv, V_next)))

\* mutant: f and f_inv applied the other way round
TargetFunc_SwappedTransform(target_params, target_state, rng, transition_batch) ==
    LET sl == PySlice(transition_batch, 3, 6)
        V_next == VFunction(target_params.v_targ, target_state.v_targ, rng, sl[3], FALSE)[1]
        f == td.value_transform[1]
        f_inv == td.value_transform[2]
    IN  ApplyFunc(f_inv, RatAdd(sl[1], RatMul(sl[2], ApplyFunc(f, V_next))))

\* SimpleTD.target_func(target_params, target_state, rng, transition_batch)
TargetFunc(target_params, target_state, rng, transition_batch) ==
    LET sl == PySlice(transition_batch, 3, 6)
        Rn == sl[1]
        In == sl[2]
        S_next == sl[3]
        V_next == TargetEval(target_params, target_state, rng, transition_batch)[1]
        f == td.value_transform[1]
        f_inv == td.value_transform[2]
    IN  ApplyFunc(f, RatAdd(Rn, RatMul(In, ApplyFunc(f_inv, V_next))))

\* a call of updater.target_func with any target parameters, state and batch;
\* dropped is the function state the evaluation returned and target_func discards
TargetFuncCall(target_params, target_state, b) ==
    /\ td.pc # "none"
    /\ td' = [td EXCEPT !.call =
                 <<[op |-> "target_func", target_params |-> target_params,
                    target_state |-> target_state, batch |-> b,
                    ret |-> TargetFunc(target_params, target_state, 0, BatchTuple(b)),
                    dropped |-> TargetEval(target_params, target_state, 0, BatchTuple(b))[2]]>>]
    /\ UNCHANGED <<cacheVars, dm>>

\* the derivative of the Huber loss (the default loss function) in the prediction
HuberGrad(err) ==
    IF RatLess(err, <<-1, 1>>) THEN <<-1, 1>>
    ELSE IF RatLess(<<1, 1>>, err) THEN <<1, 1>>
    ELSE err

\* the gradient the policy regularizer (EntropyRegularizer(pi, beta=1.0)) adds
RegularizerGrad(S) == <<1, 3>>

\* the step size of the optimizer, sgd(1.0)
LearningRate == <<1, 1>>

\* updater.update(transition_batch): one optimizer step on v's parameters towards
\* the target; v's function state is the one its training-mode evaluation returns
UpdatedV(v, v_targ, b, regularized) ==
    LET G == TargetFunc([v_targ |-> v_targ.params], [v_targ |-> v_targ.state], 0,
                        BatchTuple(b))
        out == VFunction(v.params, v.state, 0, b.S, TRUE)
        lossGrad == RatMul(HuberGrad(RatSub(out[1], G)), <<b.S, 1>>)
        grad == IF regularized THEN RatAdd(lossGrad, RegularizerGrad(b.S)) ELSE lossGrad
    IN  [params |-> RatSub(v.params, RatMul(LearningRate, grad)), state |-> out[2]]

\* test_policyreg_*: first update without policy regularizer
TestUpdateWithoutReg ==
    /\ td.pc = "start"
    /\ LET v == UpdatedV(td.v, td.v_targ, td.batch, FALSE)
       IN  td' = [td EXCEPT !.v = v, !.without_reg = <<v>>, !.pc = "without_reg"]
    /\ UNCHANGED <<cacheVars, dm>>

\* mutant: the reset restores the parameters and forgets the function state
TestResetWeights_ParamsOnly ==
    /\ td.pc = "without_reg"
    /\ td' = [td EXCEPT !.v.params = td.init.params, !.pc = "reset"]
    /\ UNCHANGED <<cacheVars, dm>>

\* test_policyreg_*: reset weights
TestResetWeights ==
    /\ td.pc = "without_reg"
    /\ td' = [td EXCEPT !.v = td.init, !.pc = "reset"]
    /\ UNCHANGED <<cacheVars, dm>>

\* test_policyreg_*: then update with policy regularizer
TestUpdateWithReg ==
    /\ td.pc = "reset"
    /\ LET v == UpdatedV(td.v, td.v_targ, td.batch, TRUE)
       IN  td' = [td EXCEPT !.v = v, !.with_reg = <<v>>, !.pc = "done"]
    /\ UNCHANGED <<cacheVars, dm>>

\* v = V(func_v, ...), v_targ = v.copy(), SimpleTD(v, v_targ, ...) and the copies
\* the test keeps of v's initial parameters and function state
InitTD ==
    /\ InitCache(1, <<1, 2>>)
    /\ dm = NoDM
    /\ \E arg \in ValueTransformArgs, w \in ParamValues, st \in StateValues,
          b \in BatchValues :
           td = [pc |-> "start", arg |-> arg, value_transform |-> ValueTransform(arg),
                 v |-> [params |-> w, state |-> st],
                 v_targ |-> [params |-> w, state |-> st],
                 batch |-> b, call |-> <<>>,
                 init |-> [params |-> w, state |-> st],
                 without_reg |-> <<>>, with_reg |-> <<>>]

NextTD ==
    \/ \E w \in ParamValues, st \in StateValues, b \in BatchValues :
           TargetFuncCall([v_targ |-> w], [v_targ |-> st], b)
    \/ TestUpdateWithoutReg
    \/ TestResetWeights
    \/ TestUpdateWithReg

SpecTD == InitTD /\ [][NextTD]_vars

\* ------------------------------------------------------------------ DynamicsModel
\* discrete = Discrete(k), boxspace = Box(low=0, high=1, ...); a box is
\* represented by the integer points between its bounds
DiscreteSizes == {2, 3}
Spaces ==
    [kind : {"Discrete"}, n : DiscreteSizes] \cup [kind : {"Box"}, low : {0}, high : {1}]

IsDiscrete(space) == space.kind = "Discrete"

\* the members of a space
Elements(space) == IF IsDiscrete(space) THEN 0..(space.n - 1) ELSE space.low..space.high

\* every state or action of some space
AllElements == UNION {Elements(space) : space \in Spaces}

\* the two parameter lists construction accepts
SigType1 == <<"S", "A", "is_training">>
SigType2 == <<"S", "is_training">>

\* a user function: its parameter names and the field names of what it returns
FuncSignatures == {SigType1, SigType2, <<"S", "is_training", "x">>, <<"S", "A">>}
FuncOutputs == {{"logits"}, {"mu", "logvar"}, {"foo", "logits"}, {"mu"}, {"mean", "logvar"}}
Funcs == [params : FuncSignatures, out : FuncOutputs]

\* mutant: any list that starts with S and has is_training somewhere passes
SignatureOK_Loose(sig) == sig[1] = "S" /\ \E i \in 1..Len(sig) : sig[i] = "is_training"

\* the parameter list is one of the two recognized shapes
SignatureOK(sig) == sig \in {SigType1, SigType2}

\* mutant: a type-2 function is let through whatever the action space
Type2Allowed_Always(sig, action_space) == TRUE

\* a type-2 model needs a Discrete action space
Type2Allowed(sig, action_space) == sig = SigType2 => IsDiscrete(action_space)

\* the output fields the observation space's distribution family requires
ExpectedFields(observation_space) ==
    IF IsDiscrete(observation_space) THEN {"logits"} ELSE {"mu", "logvar"}

\* mutant: extra fields are tolerated
OutputOK_Subset(got, expected) == expected \subseteq got

\* the returned structure must match exactly
OutputOK(got, expected) == got = expected

NoError == [type |-> "none", msg |-> "", expected |-> {}, got |-> {}, sig |-> <<>>]
NoCall == [op |-> "none", s |-> <<>>, a |-> <<>>, rng |-> <<>>, err |-> NoError,
           kind |-> "none", ret |-> <<>>]

\* the outcome of the checks construction makes, in the order it makes them
ConstructionError(func, observation_space, action_space) ==
    IF ~SignatureOK(func.params)
    THEN [NoError EXCEPT !.type = "TypeError", !.msg = "func has bad signature",
                         !.sig = func.params]
    ELSE IF ~Type2Allowed(func.params, action_space)
    THEN [NoError EXCEPT !.type = "TypeError",
              !.msg = "type-2 models are only well-defined for Discrete action spaces"]
    ELSE IF ~OutputOK(func.out, ExpectedFields(observation_space))
    THEN [NoError EXCEPT !.type = "TypeError",
              !.msg = "func has bad return tree_structure",
              !.expected = ExpectedFields(observation_space), !.got = func.out]
    ELSE NoError

\* DynamicsModel(func, observation_space, action_space)
DynamicsModel(func, observation_space, action_space) ==
    /\ dm.pc # "none"
    /\ LET err == ConstructionError(func, observation_space, action_space)
           args == [func |-> func, observation_space |-> observation_space,
                    action_space |-> action_space]
       IN  dm' = [pc |-> "live", args |-> <<args>>, new |-> err,
                  model |-> IF err = NoError THEN <<args>> ELSE <<>>,
                  failed |-> FALSE, last |-> NoCall]
    /\ UNCHANGED <<cacheVars, td>>

Clip(x, space) == IF x < space.low THEN space.low ELSE IF x > space.high THEN space.high ELSE x

\* the distribution parameters of the next state given state S and action A
DistParams(observation_space, S, A) ==
    IF IsDiscrete(observation_space)
    THEN [logits |-> [i \in 0..(observation_space.n - 1) |->
                          IF i = (S + A) % observation_space.n THEN 1 ELSE 0]]
    ELSE [mu |-> S + A, logvar |-> 0]

\* what the user function returns: a type-2 function returns the parameters of every
\* action at once, and the model picks the action's entry
FuncParams(model, S, A) ==
    IF model.func.params = SigType2
    THEN [a \in Elements(model.action_space) |->
              DistParams(model.observation_space, S, a)][A]
    ELSE DistParams(model.observation_space, S, A)

\* the most likely next state
DistMode(observation_space, params) ==
    IF IsDiscrete(observation_space)
    THEN CHOOSE i \in DOMAIN params.logits :
             \A j \in DOMAIN params.logits :
                 params.logits[j] < params.logits[i] \/ (params.logits[j] = params.logits[i] /\ i <= j)
    ELSE Clip(params.mu, observation_space)

\* the draws of the random number generator
RngValues == {0, 1, 2}

\* a sample of the next state, which the draw rng decides
DistSample(observation_space, params, rng) ==
    IF IsDiscrete(observation_space)
    THEN (DistMode(observation_space, params) + rng) % observation_space.n
    ELSE Clip(params.mu + rng - 1, observation_space)

Evaluate(model, op, S, A, rng) ==
    LET params == FuncParams(model, S, A)
    IN  IF op = "mode" THEN DistMode(model.observation_space, params)
        ELSE DistSample(model.observation_space, params, rng)

\* mutant: the actions are enumerated from the last to the first
EnumerateActions_Reversed(action_space) == [i \in 1..action_space.n |-> action_space.n - i]

\* the actions of a Discrete action space in index order
EnumerateActions(action_space) == [i \in 1..action_space.n |-> i - 1]

\* mutant: once a call has failed the model keeps failing
MissingInput_Sticky(model, a) ==
    /\ model.func.params = SigType1
    /\ ~IsDiscrete(model.action_space)
    /\ (a = <<>> \/ dm.failed)

\* a type-1 model over a non-Discrete action space is called without an action
MissingInput(model, a) ==
    /\ a = <<>>
    /\ model.func.params = SigType1
    /\ ~IsDiscrete(model.action_space)

\* p(s, a) and p(s) when op is "call", p.mode(s, a) and p.mode(s) when op is "mode";
\* a is <<>> when no action is passed
Call(op, s, a, rng) ==
    /\ dm.pc # "none"
    /\ dm.model # <<>>
    /\ LET model == dm.model[1]
           call == [NoCall EXCEPT !.op = op, !.s = <<s>>, !.a = a, !.rng = <<rng>>]
       IN  /\ s \in Elements(model.observation_space)
           /\ a # <<>> => a[1] \in Elements(model.action_space)
           /\ IF MissingInput(model, a)
              THEN dm' = [dm EXCEPT !.failed = TRUE,
                          !.last = [call EXCEPT !.err =
                              [NoError EXCEPT !.type = "ValueError",
                                  !.msg = "input 'A' is required for type-1 dynamics model when action space is non-Discrete"]]]
              ELSE IF a = <<>>
              THEN dm' = [dm EXCEPT !.last = [call EXCEPT !.kind = "sequence",
                              !.ret = [i \in 1..model.action_space.n |->
                                  Evaluate(model, op, s, EnumerateActions(model.action_space)[i], rng)]]]
              ELSE dm' = [dm EXCEPT !.last = [call EXCEPT !.kind = "single",
                              !.ret = <<Evaluate(model, op, s, a[1], rng)>>]]
    /\ UNCHANGED <<cacheVars, td>>

\* before any model is constructed
InitDM ==
    /\ InitCache(1, <<1, 2>>)
    /\ td = NoTD
    /\ dm = [pc |-> "live", args |-> <<>>, new |-> NoError, model |-> <<>>,
             failed |-> FALSE, last |-> NoCall]

NextDM ==
    \/ \E func \in Funcs, observation_space \in Spaces, action_space \in Spaces :
           DynamicsModel(func, observation_space, action_space)
    \/ \E op \in {"call", "mode"}, s \in AllElements,
          a \in {<<>>} \cup {<<x>> : x \in AllElements}, rng \in RngValues :
           Call(op, s, a, rng)

SpecDM == InitDM /\ [][NextDM]_vars

\* ------------------------------------------------------------------ caller protocol
\* the caller that drains the cache after every add:
\*     cache.add(s, a, r, done, logp)
\*     while cache:
\*         transition_batch = cache.pop()
\* The loop condition is bool(cache), so the next add (or reset) comes only when
\* the cache is not ready, and while it is ready the only call is pop.
ProtocolAdd(s, a, r, d, logp) == ~CacheBool /\ Add(s, a, r, d, logp)

ProtocolPop == CacheBool /\ Pop

ProtocolReset == ~CacheBool /\ Reset

NextProtocol ==
    \/ ProtocolReset
    \/ \E sap \in SapValues, r \in RewardValues, d \in BOOLEAN :
           ProtocolAdd(sap[1], sap[2], r, d, sap[3])
    \/ ProtocolPop

SpecProtocol == Init /\ [][NextProtocol]_vars

\* what an iteration of the loop does to the queue; under the protocol the steps
\* that do this to a ready cache are the ProtocolPop steps
LoopIteration == CacheBool /\ deque_sap' = Tail(deque_sap)

\* the loop keeps running while its condition holds
SpecProtocolFair == SpecProtocol /\ WF_deque_sap(LoopIteration)

\* ------------------------------------------------------------------ cache to target
\* the transitions a cache emits are what the updater computes its targets from:
\*     transition_batch = cache.pop()
\*     G = updater.target_func(v_targ.params, v_targ.function_state, rng, transition_batch)
\* The model follows a cache up to the first target computed from it.
TargetOfPopped ==
    /\ last.op = "pop" /\ last.err = "none"
    /\ td.call = <<>>
    /\ TargetFuncCall([v_targ |-> td.v_targ.params], [v_targ |-> td.v_targ.state],
                      last.ret[1])

\* the discounts of the caches the updater is fed from
PipelineGammas == {<<1, 2>>, <<9, 10>>}

\* a cache and an updater with a target network
InitPipeline ==
    /\ \E nn \in 1..MaxN, g \in PipelineGammas : InitCache(nn, g)
    /\ \E arg \in ValueTransformArgs, w \in ParamValues :
           td = [pc |-> "pipeline", arg |-> arg, value_transform |-> ValueTransform(arg),
                 v_targ |-> [params |-> w, state |-> 0], call |-> <<>>]
    /\ dm = NoDM

NextPipeline ==
    \/ td.call = <<>> /\ Reset
    \/ \E sap \in SapValues, r \in RewardValues, d \in BOOLEAN :
           td.call = <<>> /\ Add(sap[1], sap[2], r, d, sap[3])
    \/ td.call = <<>> /\ Pop
    \/ TargetOfPopped

SpecPipeline == InitPipeline /\ [][NextPipeline]_vars

\* ------------------------------------------------------------------ claims

\* the last call was a pop() that returned a transition
Returned == last.op = "pop" /\ last.err = "none"

\* the TransitionSingle the last pop() built and the batch it returned
Single == last.single[1]

Batch == last.ret[1]

\* the place in hist of the step at the head of the queue when the last call started
PoppedIndex == Len(hist) - Len(pre.sap) + 1

\* the transition carries the (s, a, logp) of step i of hist as its own step
CarriesStep(i) ==
    /\ Single.s = hist[i].s /\ Single.a = hist[i].a /\ Single.logp = hist[i].logp
    /\ Batch.S = hist[i].s /\ Batch.A = hist[i].a /\ Batch.logP = hist[i].logp

\* the transition carries the (s, a, logp) of step i of hist as its anchor
AnchorsOn(i) ==
    /\ Single.s_next = hist[i].s /\ Single.a_next = hist[i].a
    /\ Single.logp_next = hist[i].logp
    /\ Batch.S_next = hist[i].s /\ Batch.A_next = hist[i].a
    /\ Batch.logP_next = hist[i].logp

\* C1: for n >= 1, a pop that returns and leaves at least n entries in the cache
\* emits a non-terminal transition of the oldest step t whose s_next, a_next and
\* logp_next are those of the step added exactly n adds after t; after n+1 adds
\* the first pop anchors on the (n+1)-th added step.
C1_AnchorNStepsAhead ==
    /\ (n >= 1 /\ Returned /\ Len(deque_sap) >= n) =>
           /\ PoppedIndex + n <= Len(hist)
           /\ CarriesStep(PoppedIndex)
           /\ Single.done = FALSE
           /\ AnchorsOn(PoppedIndex + n)
    /\ (/\ n >= 1 /\ last.op = "pop"
        /\ Len(hist) = n + 1 /\ Len(pre.sap) = n + 1
        /\ \A i \in 1..Len(hist) : ~hist[i].done) =>
           /\ Returned
           /\ CarriesStep(1)
           /\ Single.done = FALSE
           /\ AnchorsOn(n + 1)

\* n = 2, three steps added without done, first pop: the anchor is the third step,
\* which differs from the popped one
C1_Witness ==
    /\ n = 2 /\ Returned /\ pops = 1 /\ Len(hist) = 3 /\ Len(deque_sap) = 2
    /\ \A i \in 1..3 : ~hist[i].done
    /\ hist[1].s # hist[3].s /\ hist[2].s # hist[3].s
    /\ Single.s_next = hist[3].s

\* the sum over k = 0..m-1 of gamma^k * r_{t+k}, from the steps as they were added
RECURSIVE DiscountedRewards(_, _)
DiscountedRewards(t, m) ==
    IF m = 0 THEN <<0, 1>>
    ELSE RatAdd(DiscountedRewards(t, m - 1),
                RatMul(Power(gamma, m - 1), <<hist[t + m - 1].r, 1>>))

\* C2: every pop that returns carries Rn = sum over k = 0..m-1 of gamma^k * r_{t+k}
\* with m = min(n, entries buffered just before the pop), starting with the popped
\* step's own reward.
C2_PartialReturn ==
    Returned =>
        /\ Single.r = DiscountedRewards(PoppedIndex, Min(n, Len(pre.sap)))
        /\ Batch.Rn = DiscountedRewards(PoppedIndex, Min(n, Len(pre.sap)))

\* n = 2, gamma = 1/2, three buffered rewards 1, 2, 2: Rn = 1 + 2/2 = 2 and the
\* third reward does not contribute
C2_Witness ==
    /\ n = 2 /\ gamma = <<1, 2>> /\ Returned /\ pops = 1
    /\ pre.r = <<1, 2, 2>>
    /\ Batch.Rn = <<2, 1>>

\* C3: a pop that returns and leaves fewer than n entries in the cache emits a
\* terminal transition whose s_next, a_next and logp_next are the popped step's own
\* s, a and logp.
C3_TerminalCollapse ==
    (Returned /\ Len(deque_sap) < n) =>
        /\ Single.done = TRUE
        /\ CarriesStep(PoppedIndex)
        /\ AnchorsOn(PoppedIndex)
        /\ Single.s_next = pre.sap[1][1]
        /\ Single.a_next = pre.sap[1][2]
        /\ Single.logp_next = pre.sap[1][3]

\* n = 2, a finished episode of two different steps: the first pop leaves one entry
C3_Witness ==
    /\ n = 2 /\ Returned /\ Len(pre.sap) = 2 /\ pre.done
    /\ pre.sap[1] # pre.sap[2]
    /\ Single.done /\ Single.s_next = pre.sap[1][1]

\* C4: every transition a pop returns carries In = gamma^n, the gamman computed at
\* the last reset, when it is non-terminal and In = 0 when it is terminal.
C4_BootstrapFactor ==
    Returned =>
        /\ gamman = Power(gamma, n)
        /\ ~Single.done => Batch.In = Power(gamma, n)
        /\ Single.done => Batch.In = <<0, 1>>
        /\ Batch.In \in {<<0, 1>>, Power(gamma, n)}

\* n = 2, gamma = 1/2: a non-terminal transition with In = 1/4
C4_Witness ==
    /\ n = 2 /\ gamma = <<1, 2>> /\ Returned
    /\ ~Single.done /\ Batch.In = <<1, 4>>

\* the steps of hist that ended an episode
DoneSteps == {j \in 1..Len(hist) : hist[j].done}

\* the first step of the episode step t belongs to
EpisodeStart(t) ==
    IF \E j \in DoneSteps : j < t
    THEN 1 + CHOOSE j \in DoneSteps : j < t /\ \A k \in DoneSteps : k < t => k <= j
    ELSE 1

\* the episode of step t has ended
EpisodeEnded(t) == \E j \in DoneSteps : j >= t

\* the last step of the episode step t belongs to
EpisodeEnd(t) == CHOOSE j \in DoneSteps : j >= t /\ \A k \in DoneSteps : k >= t => j <= k

EpisodeLength(t) == EpisodeEnd(t) - EpisodeStart(t) + 1

\* C5: for a finished episode of L steps, 1 <= L <= n, every pop of one of its steps
\* returns a transition that is terminal and has In = 0, whatever gamma is.
C5_ShortEpisodeTerminal ==
    (/\ last.op = "pop" /\ pre.sap # <<>>
     /\ EpisodeEnded(PoppedIndex) /\ EpisodeLength(PoppedIndex) <= n) =>
        /\ last.err = "none"
        /\ CarriesStep(PoppedIndex)
        /\ Single.done = TRUE
        /\ Batch.In = <<0, 1>>

\* n = 2, gamma = 1/2, an episode of two steps ended by done: the second pop
C5_Witness ==
    /\ n = 2 /\ gamma = <<1, 2>> /\ Returned /\ pops = 2
    /\ Len(hist) = 2 /\ ~hist[1].done /\ hist[2].done
    /\ deque_sap = <<>>
    /\ Single.done /\ Batch.In = <<0, 1>>

\* the most recent step accepted by add had done = True
LastAddDone == hist # <<>> /\ hist[Len(hist)].done

\* C6: the cache is ready iff it holds at least one entry and either the most recent
\* add had done = True or it holds more than n entries; after a reset and k adds
\* without done and no pop it is ready iff k >= n + 1.
C6_Ready ==
    /\ CacheBool <=> (Len(deque_sap) >= 1 /\ (LastAddDone \/ Len(deque_sap) > n))
    /\ (pops = 0 /\ DoneSteps = {} /\ Len(deque_sap) = Len(hist)) =>
           (CacheBool <=> Len(hist) >= n + 1)

\* n = 2: two buffered steps are not ready
C6_Witness ==
    /\ n = 2 /\ pops = 0 /\ DoneSteps = {} /\ Len(hist) = 2 /\ Len(deque_sap) = 2
    /\ ~CacheBool

\* the cache was ready when the last call started
ReadyBefore == pre.sap # <<>> /\ (pre.done \/ Len(pre.sap) > pre.n)

\* the queues and the done flag are as they were when the last call started
StateAsBefore == deque_sap = pre.sap /\ deque_r = pre.r /\ done = pre.done

\* C7: pop raises the insufficient-cache error iff the cache is not ready, and then
\* leaves the queues, the done flag and the length unchanged; for n >= 1 a pop of a
\* ready cache fails in no other way and removes exactly one entry from each queue.
C7_PopErrors ==
    last.op = "pop" =>
        /\ last.err = "InsufficientCacheError" <=> ~ReadyBefore
        /\ last.err = "InsufficientCacheError" =>
               StateAsBefore /\ Len(deque_sap) = Len(pre.sap)
        /\ (n >= 1 /\ ReadyBefore) =>
               /\ last.err = "none"
               /\ deque_sap = Tail(pre.sap)
               /\ deque_r = Tail(pre.r)
               /\ done = pre.done

\* n = 2: a pop of two buffered steps of an unfinished episode raises
C7_Witness ==
    /\ n = 2 /\ last.op = "pop" /\ last.err = "InsufficientCacheError"
    /\ Len(deque_sap) = 2 /\ ~done

\* the step the last successful add appended
Added == hist[Len(hist)]

\* C8: add raises the episode-done error iff the most recent successful add had
\* done = True and the cache still holds an entry, and then leaves the queues and
\* the done flag unchanged; in every other state it appends one entry to each queue
\* and sets the done flag to the added step's.
C8_AddErrors ==
    last.op = "add" =>
        /\ last.err \in {"none", "EpisodeDoneError"}
        /\ last.err = "EpisodeDoneError" =>
               /\ LastAddDone /\ pre.sap # <<>>
               /\ StateAsBefore
        /\ last.err = "none" =>
               /\ ~(Len(hist) >= 2 /\ hist[Len(hist) - 1].done /\ pre.sap # <<>>)
               /\ deque_sap = Append(pre.sap, <<Added.s, Added.a, Added.logp>>)
               /\ deque_r = Append(pre.r, Added.r)
               /\ done = Added.done

\* n = 1: a third step is added to a ready cache that holds two
C8_Witness ==
    /\ n = 1 /\ last.op = "add" /\ last.err = "none"
    /\ Len(pre.sap) = 2 /\ ~pre.done /\ Len(deque_sap) = 3

\* C9: after an add with done = True the cache stays ready until it is empty: each
\* pop of the m buffered entries returns and removes one, the pop of the emptied
\* cache raises the insufficient-cache error, and the next add on the emptied cache
\* succeeds without a reset.
C9_DrainThenAdd ==
    /\ (LastAddDone /\ deque_sap # <<>>) => CacheBool
    /\ (last.op = "pop" /\ pre.done /\ pre.sap # <<>>) =>
           /\ last.err = "none"
           /\ Len(deque_sap) = Len(pre.sap) - 1
           /\ done = pre.done
    /\ (last.op = "pop" /\ pre.sap = <<>>) => last.err = "InsufficientCacheError"
    /\ (last.op = "add" /\ pre.sap = <<>>) => last.err = "none"
    /\ Len(deque_sap) = Len(hist) - pops

\* an episode of two steps was drained by two pops and a third step was added
\* while the done flag of the drained episode was still set
C9_Witness ==
    /\ last.op = "add" /\ last.err = "none"
    /\ pre.done /\ pre.sap = <<>>
    /\ pops = 2 /\ Len(hist) = 3 /\ hist[2].done /\ ~hist[1].done

\* C10: reset() in any state leaves both queues empty and the done flag False, n and
\* gamma unchanged and the weights gamma^0..gamma^(n-1) and gamma^n; a pop right
\* after it raises the insufficient-cache error and an add right after it succeeds.
C10_Reset ==
    /\ [](last.op = "reset" =>
            /\ deque_sap = <<>> /\ deque_r = <<>> /\ done = FALSE
            /\ CacheLen = 0 /\ ~CacheBool
            /\ n = pre.n /\ gamma = pre.gamma
            /\ Len(gammas) = n
            /\ \A i \in 1..n : gammas[i] = Power(gamma, i - 1)
            /\ gamman = Power(gamma, n))
    /\ [][last.op = "reset" =>
            /\ last'.op = "pop" =>
                   last'.err = "InsufficientCacheError" /\ deque_sap' = <<>>
            /\ last'.op = "add" =>
                   last'.err = "none" /\ Len(deque_sap') = 1 /\ Len(deque_r') = 1]_vars

\* reset() of a finished episode with two entries still buffered
C10_Witness ==
    /\ last.op = "reset" /\ pre.done /\ Len(pre.sap) = 2
    /\ deque_sap = <<>> /\ ~done

\* C11: with n = 1 the pops return the steps in the order they were added, each with
\* Rn equal to its own reward; a step that did not end its episode gives a
\* non-terminal transition with In = gamma and the following step as anchor, the
\* step that ended it a terminal transition with In = 0.
C11_OneStep ==
    (n = 1 /\ Returned) =>
        /\ PoppedIndex = pops
        /\ CarriesStep(PoppedIndex)
        /\ Batch.Rn = <<hist[PoppedIndex].r, 1>>
        /\ ~hist[PoppedIndex].done =>
               /\ Single.done = FALSE
               /\ Batch.In = gamma
               /\ AnchorsOn(PoppedIndex + 1)
        /\ hist[PoppedIndex].done =>
               /\ Single.done = TRUE
               /\ Batch.In = <<0, 1>>
               /\ PoppedIndex = Len(hist)

\* n = 1, gamma = 0.9, rewards 1, 1, 1, the third step done: the second pop of the
\* drain returns Rn = 1 and In = 0.9
C11_Witness ==
    /\ n = 1 /\ gamma = <<9, 10>> /\ Returned /\ pops = 2 /\ pre.done
    /\ Len(hist) = 3 /\ \A i \in 1..3 : hist[i].r = 1 /\ (hist[i].done <=> i = 3)
    /\ Batch.Rn = <<1, 1>> /\ Batch.In = <<9, 10>>

\* the last call of target_func
TargetCall == td.call[1]

\* C13: target_func takes Rn, In and S_next from positions 3, 4 and 5 of the batch
\* and returns f(Rn + In * f_inv(v_targ(S_next))) for the configured transform
\* (f, f_inv); with no transform supplied the target is Rn + In * v_targ(S_next).
C13_Target ==
    (td.pc # "none" /\ td.call # <<>>) =>
        LET b == TargetCall.batch
            V_next == RatMul(TargetCall.target_params.v_targ, <<b.S_next, 1>>)
            bootstrap == RatAdd(b.Rn, RatMul(b.In, V_next))
        IN  /\ td.arg = <<>> => TargetCall.ret = bootstrap
            /\ td.arg = <<"double", "halve">> =>
                   TargetCall.ret =
                       RatMul(<<2, 1>>, RatAdd(b.Rn, RatMul(b.In, RatMul(<<1, 2>>, V_next))))
            /\ td.arg = <<"halve", "double">> =>
                   TargetCall.ret =
                       RatMul(<<1, 2>>, RatAdd(b.Rn, RatMul(b.In, RatMul(<<2, 1>>, V_next))))

\* f doubles, f_inv halves, Rn = 5/2, In = 1/4, v_targ(S_next) = 1/2 * 2 = 1:
\* the target is 2 * (5/2 + 1/4 * 1/2) = 21/4
C13_Witness ==
    /\ td.pc # "none" /\ td.call # <<>>
    /\ td.arg = <<"double", "halve">>
    /\ TargetCall.batch.Rn = <<5, 2>> /\ TargetCall.batch.In = <<1, 4>>
    /\ TargetCall.batch.S_next = 2 /\ TargetCall.target_params.v_targ = <<1, 2>>
    /\ TargetCall.ret = <<21, 4>>

Constructed == dm.pc # "none" /\ dm.args # <<>>
DMArgs == dm.args[1]
DMBuilt == dm.pc # "none" /\ dm.model # <<>>
DMCalled == DMBuilt /\ dm.last.op # "none"

\* the function's output fields are the ones its observation space requires
FieldsMatch ==
    \/ DMArgs.observation_space.kind = "Discrete" /\ DMArgs.func.out = {"logits"}
    \/ DMArgs.observation_space.kind = "Box" /\ DMArgs.func.out = {"mu", "logvar"}

\* C15: constructing a DynamicsModel from a type-2 function (S, is_training) over a
\* non-discrete action space fails with the type-2 TypeError whatever the
\* observation space and the output fields; over a discrete action space it
\* succeeds when the output fields match the observation space.
C15_Type2NeedsDiscrete ==
    (Constructed /\ DMArgs.func.params = <<"S", "is_training">>) =>
        /\ DMArgs.action_space.kind # "Discrete" =>
               /\ dm.model = <<>>
               /\ dm.new.type = "TypeError"
               /\ dm.new.msg = "type-2 models are only well-defined for Discrete action spaces"
        /\ (DMArgs.action_space.kind = "Discrete" /\ FieldsMatch) =>
               /\ dm.model = <<DMArgs>>
               /\ dm.new.type = "none"

\* DynamicsModel(func_discrete_type2, discrete, boxspace): the fields match, it fails
C15_Witness ==
    /\ Constructed
    /\ DMArgs.func = [params |-> <<"S", "is_training">>, out |-> {"logits"}]
    /\ DMArgs.observation_space.kind = "Discrete"
    /\ DMArgs.action_space.kind = "Box"
    /\ dm.model = <<>>
    /\ dm.new.msg = "type-2 models are only well-defined for Discrete action spaces"

\* the signature is valid and the model type is allowed for the action space
SignatureAllowed ==
    \/ DMArgs.func.params = <<"S", "A", "is_training">>
    \/ DMArgs.func.params = <<"S", "is_training">> /\ DMArgs.action_space.kind = "Discrete"

\* C16: with a valid signature and an allowed model type, construction succeeds
\* exactly when the function's output field set equals the one the observation
\* space requires, whatever the action space; otherwise construction itself fails
\* with a TypeError that carries the expected and the actual field sets.
C16_OutputStructure ==
    (Constructed /\ SignatureAllowed) =>
        /\ dm.model # <<>> <=> FieldsMatch
        /\ FieldsMatch => dm.new.type = "none"
        /\ ~FieldsMatch =>
               /\ dm.new.type = "TypeError"
               /\ dm.new.msg = "func has bad return tree_structure"
               /\ dm.new.got = DMArgs.func.out
               /\ dm.new.expected =
                      (IF DMArgs.observation_space.kind = "Discrete"
                       THEN {"logits"} ELSE {"mu", "logvar"})
               /\ dm.last.op = "none"

\* test_bad_output_structure: an extra field foo next to logits
C16_Witness ==
    /\ Constructed
    /\ DMArgs.func = [params |-> <<"S", "is_training">>, out |-> {"foo", "logits"}]
    /\ DMArgs.observation_space.kind = "Discrete"
    /\ DMArgs.action_space.kind = "Discrete"
    /\ dm.model = <<>>
    /\ dm.new.expected = {"logits"} /\ dm.new.got = {"foo", "logits"}

\* C17: construction accepts a function only if its parameter names are exactly
\* (S, A, is_training) or (S, is_training); any other list fails at construction
\* with a TypeError naming the list, for every pair of spaces.
C17_Signature ==
    Constructed =>
        LET sig == DMArgs.func.params
            recognized == sig = <<"S", "A", "is_training">> \/ sig = <<"S", "is_training">>
        IN  /\ dm.model # <<>> => recognized
            /\ ~recognized =>
                   /\ dm.model = <<>>
                   /\ dm.new.type = "TypeError"
                   /\ dm.new.msg = "func has bad signature"
                   /\ dm.new.sig = sig

\* test_bad_input_signature: badfunc(S, is_training, x) over (boxspace, discrete),
\* with output fields that would have matched
C17_Witness ==
    /\ Constructed
    /\ DMArgs.func = [params |-> <<"S", "is_training", "x">>, out |-> {"mu", "logvar"}]
    /\ DMArgs.observation_space.kind = "Box"
    /\ DMArgs.action_space.kind = "Discrete"
    /\ dm.model = <<>>
    /\ dm.new.sig = <<"S", "is_training", "x">>

\* C18: a constructed type-1 model over a non-discrete action space raises a
\* ValueError naming the input A whenever it is called (or its mode) without an
\* action; called with an action, before or after such a failure, it returns a
\* single next state of the observation space.
C18_MissingInput ==
    (DMCalled /\ dm.model[1].func.params = <<"S", "A", "is_training">>
              /\ dm.model[1].action_space.kind # "Discrete") =>
        /\ dm.last.a = <<>> =>
               /\ dm.last.err.type = "ValueError"
               /\ dm.last.err.msg =
                      "input 'A' is required for type-1 dynamics model when action space is non-Discrete"
               /\ dm.last.kind = "none"
               /\ dm.failed
        /\ dm.last.a # <<>> =>
               /\ dm.last.err.type = "none"
               /\ dm.last.kind = "single"
               /\ Len(dm.last.ret) = 1
               /\ dm.last.ret[1] \in
                      (IF dm.model[1].observation_space.kind = "Discrete"
                       THEN 0..(dm.model[1].observation_space.n - 1)
                       ELSE dm.model[1].observation_space.low..dm.model[1].observation_space.high)

\* the model has failed on a call without action and then answered p.mode(s, a)
C18_Witness ==
    /\ DMCalled /\ dm.failed
    /\ dm.model[1].func.params = <<"S", "A", "is_training">>
    /\ dm.model[1].action_space.kind = "Box"
    /\ dm.model[1].observation_space.kind = "Discrete"
    /\ dm.last.op = "mode" /\ dm.last.a = <<1>>
    /\ dm.last.err.type = "none" /\ dm.last.kind = "single"

\* C19: a constructed model over a discrete action space with k actions, called
\* (or its mode) without an action, returns a sequence of exactly k members of the
\* observation space, the i-th being the next state for action i - 1; it never
\* raises the missing-input error.
C19_OnePerAction ==
    (DMCalled /\ dm.model[1].action_space.kind = "Discrete" /\ dm.last.a = <<>>) =>
        LET model == dm.model[1]
            k == model.action_space.n
        IN  /\ dm.last.err.type = "none"
            /\ dm.last.kind = "sequence"
            /\ DOMAIN dm.last.ret = 1..k
            /\ \A i \in 1..k :
                   /\ dm.last.ret[i] \in
                          (IF model.observation_space.kind = "Discrete"
                           THEN 0..(model.observation_space.n - 1)
                           ELSE model.observation_space.low..model.observation_space.high)
                   /\ dm.last.ret[i] =
                          Evaluate(model, dm.last.op, dm.last.s[1], i - 1, dm.last.rng[1])

\* a type-1 model over Discrete(3) actions and observations: p.mode(0) is <<0, 1, 2>>
C19_Witness ==
    /\ DMCalled
    /\ dm.model[1].func.params = <<"S", "A", "is_training">>
    /\ dm.model[1].action_space = [kind |-> "Discrete", n |-> 3]
    /\ dm.model[1].observation_space = [kind |-> "Discrete", n |-> 3]
    /\ dm.last.op = "mode" /\ dm.last.s = <<0>> /\ dm.last.a = <<>>
    /\ dm.last.ret = <<0, 1, 2>>

\* C20: after every call of reset, add or pop, failed or not, the two queues
\* have the same length: the steps added since the last reset minus the successful
\* pops since then.
C20_QueueLengths ==
    /\ Len(deque_sap) = Len(deque_r)
    /\ Len(deque_sap) = Len(hist) - pops

\* two steps added, one popped, and then a pop that failed: one entry is left
C20_Witness ==
    /\ last.op = "pop" /\ last.err = "InsufficientCacheError"
    /\ Len(hist) = 2 /\ pops = 1
    /\ Len(deque_sap) = 1 /\ Len(deque_r) = 1

\* C21 as stated: whatever the sequence of reset, add and pop calls, the cache
\* never holds more than n + 1 entries.
C21_AtMostNPlusOne == Len(deque_sap) <= n + 1 /\ Len(deque_r) <= n + 1

\* C21, amended: the cache comes to hold more than n + 1 entries only through an
\* add made while it was already ready; an add on a cache that is not ready leaves
\* at most n + 1 entries, so a caller that pops while the cache is ready after
\* every add never has more than n + 1 buffered.
C21_OverflowOnlyByAddOnReady ==
    /\ []((last.op = "add" /\ ~ReadyBefore) => CacheLen <= n + 1)
    /\ [][(CacheLen' > n + 1 /\ CacheLen <= n + 1) =>
              /\ last'.op = "add" /\ last'.err = "none"
              /\ CacheBool
              /\ CacheLen = n + 1]_vars

\* n = 1: a third step added to a cache that was ready with two entries
C21_Witness ==
    /\ n = 1 /\ last.op = "add" /\ last.err = "none"
    /\ Len(pre.sap) = 2 /\ ~pre.done
    /\ Len(deque_sap) = 3 /\ Len(deque_r) = 3

\* the step is a call of target_func
TargetFuncStep == td.pc # "none" /\ td'.call # td.call

\* C22: target_func evaluates the target value function in inference mode: the
\* function state the evaluation hands back is the target_state passed in, it is
\* discarded, only the target value is returned, and the call leaves its
\* arguments and the updater's v and v_targ (parameters and function state) as
\* they were.
C22_TargetFuncFrame ==
    [][TargetFuncStep =>
          /\ td'.call[1].dropped = td'.call[1].target_state.v_targ
          /\ td'.call[1].ret \in Int \X Int
          /\ td'.v = td.v
          /\ td'.v_targ = td.v_targ
          /\ td'.batch = td.batch
          /\ td'.init = td.init
          /\ td'.value_transform = td.value_transform
          /\ td'.pc = td.pc]_vars

\* target_func was called between the two updates of the test with a target state
\* other than v_targ's and S_next = 2; v has been updated, v_targ has not
C22_Witness ==
    /\ td.pc = "without_reg" /\ td.call # <<>>
    /\ TargetCall.batch.S_next = 2
    /\ TargetCall.target_state.v_targ = 3 /\ TargetCall.dropped = 3
    /\ td.v_targ.state = 0 /\ td.v_targ = td.init /\ td.v # td.init

\* the configured transform and its inverse, by the argument the updater was given
TransformF(x) ==
    CASE td.arg = <<>> -> x
      [] td.arg = <<"double", "halve">> -> RatMul(<<2, 1>>, x)
      [] td.arg = <<"halve", "double">> -> RatMul(<<1, 2>>, x)

TransformFInv(x) ==
    CASE td.arg = <<>> -> x
      [] td.arg = <<"double", "halve">> -> RatMul(<<1, 2>>, x)
      [] td.arg = <<"halve", "double">> -> RatMul(<<2, 1>>, x)

\* the target of the transition the last pop returned has been computed
TargetOfLastPop ==
    /\ td.pc = "pipeline" /\ td.call # <<>>
    /\ Returned /\ TargetCall.batch = Batch

\* C23: the target of a transition that pop marked terminal is f(Rn), whatever the
\* target network and the collapsed s_next; the target of a non-terminal one is
\* f(Rn + gamma^n * f_inv(v_targ(s))) with s the state of the step added n steps
\* after the popped one.
C23_TerminalTarget ==
    TargetOfLastPop =>
        /\ Single.done => TargetCall.ret = TransformF(Batch.Rn)
        /\ ~Single.done =>
               TargetCall.ret =
                   TransformF(RatAdd(Batch.Rn,
                       RatMul(Power(gamma, n),
                              TransformFInv(RatMul(td.v_targ.params,
                                                   <<hist[PoppedIndex + n].s, 1>>)))))

\* n = 2, gamma = 9/10, f doubles: a terminal transition with Rn = 1 + 9/10 * 2 has
\* target 2 * 14/5, though v_targ(s_next) = 11/2 is not zero
C23_Witness ==
    /\ TargetOfLastPop /\ Single.done
    /\ n = 2 /\ gamma = <<9, 10>> /\ td.arg = <<"double", "halve">>
    /\ td.v_targ.params = <<1, 2>> /\ Batch.S_next = 11
    /\ Batch.Rn = <<14, 5>> /\ TargetCall.ret = <<28, 5>>

\* C24: between two resets the i-th successful pop returns the s, a and logp of
\* the i-th added step, so every step is emitted at most once and in the order of
\* addition; once an episode that ended with done = True is drained to empty,
\* there have been as many successful pops as successful adds.
C24_Fifo ==
    /\ pops <= Len(hist)
    /\ Returned =>
           /\ pops = PoppedIndex
           /\ CarriesStep(pops)
    /\ (LastAddDone /\ deque_sap = <<>> /\ deque_r = <<>>) => pops = Len(hist)

\* n = 2: three different steps, the last with done, all popped; the third pop
\* returns the third step
C24_Witness ==
    /\ n = 2 /\ Returned /\ pops = 3 /\ Len(hist) = 3
    /\ hist[1].s # hist[2].s /\ hist[2].s # hist[3].s /\ hist[3].done
    /\ deque_sap = <<>>
    /\ Single.s = hist[3].s /\ Batch.A = hist[3].a

\* step i + n has been added and belongs to the episode of step i
StepAhead(i) == i + n <= Len(hist) /\ \A k \in i..(i + n - 1) : ~hist[k].done

\* the transition of step i as the episode alone determines it: n rewards and the
\* step n later when that step exists in the episode, else the rewards up to the
\* end of the episode and the step itself
EpisodeTransition(i) ==
    IF StepAhead(i)
    THEN [s |-> hist[i].s, a |-> hist[i].a, logp |-> hist[i].logp,
          r |-> DiscountedRewards(i, n), done |-> FALSE,
          s_next |-> hist[i + n].s, a_next |-> hist[i + n].a,
          logp_next |-> hist[i + n].logp]
    ELSE [s |-> hist[i].s, a |-> hist[i].a, logp |-> hist[i].logp,
          r |-> DiscountedRewards(i, Min(n, EpisodeEnd(i) - i + 1)), done |-> TRUE,
          s_next |-> hist[i].s, a_next |-> hist[i].a, logp_next |-> hist[i].logp]

\* C25: the transition emitted for a step is decided by the episode and the step
\* alone, not by when it is popped: popped as soon as the cache is ready or only
\* after the last add, step t gets the same Rn, done, In, s_next, a_next and
\* logp_next. A step emitted as terminal is less than n steps from the end of an
\* episode that has ended, so no later add could have changed its transition.
C25_InterleavingFree ==
    Returned =>
        /\ Single = EpisodeTransition(PoppedIndex)
        /\ Batch.Rn = EpisodeTransition(PoppedIndex).r
        /\ Batch.In = (IF StepAhead(PoppedIndex) THEN Power(gamma, n) ELSE <<0, 1>>)
        /\ Batch.S_next = EpisodeTransition(PoppedIndex).s_next
        /\ Batch.A_next = EpisodeTransition(PoppedIndex).a_next
        /\ Batch.logP_next = EpisodeTransition(PoppedIndex).logp_next
        /\ ~StepAhead(PoppedIndex) =>
               /\ EpisodeEnded(PoppedIndex)
               /\ EpisodeEnd(PoppedIndex) < PoppedIndex + n

\* n = 1: nothing was popped before the last of three adds; the first step still
\* comes out non-terminal and anchored on the second, as it would have after two adds
C25_Witness ==
    /\ n = 1 /\ Returned /\ pops = 1
    /\ Len(hist) = 3 /\ hist[3].done /\ Len(pre.sap) = 3 /\ pre.done
    /\ hist[1].s # hist[2].s
    /\ ~Single.done /\ Single.s_next = hist[2].s

\* C26: in an episode of L steps that ended with done = True, the steps emitted as
\* terminal are exactly its last min(n, L) ones and the earlier ones are emitted
\* non-terminal; no pop emits a terminal transition while the most recent add had
\* done = False.
C26_TerminalTail ==
    Returned =>
        /\ Single.done => (pre.done /\ LastAddDone)
        /\ EpisodeEnded(PoppedIndex) =>
               (Single.done <=>
                    PoppedIndex > EpisodeEnd(PoppedIndex)
                                  - Min(n, EpisodeLength(PoppedIndex)))

\* n = 2, an episode of three steps: the second pop, of the step before the last,
\* is terminal
C26_Witness ==
    /\ n = 2 /\ Returned /\ pops = 2
    /\ Len(hist) = 3 /\ \A i \in 1..3 : hist[i].done <=> i = 3
    /\ Single.done /\ Batch.In = <<0, 1>>

\* what the cache may hold when the drain loop is not running: nothing after a
\* step with done = True, at most n entries otherwise
Drained(queue, isDone) == IF isDone THEN queue = <<>> ELSE Len(queue) <= n

\* C27: with the caller that pops while the cache is ready after every add, the
\* drain loop always comes to an end, the cache never holds more than n + 1
\* entries, each drain leaves at most n entries after a step with done = False and
\* none after a step with done = True, and add never raises EpisodeDoneError.
C27_DrainProtocol ==
    /\ [](Len(deque_sap) <= n + 1 /\ Len(deque_r) <= n + 1)
    /\ [](last.op = "add" => (last.err = "none" /\ Drained(pre.sap, pre.done)))
    /\ [](last.op = "reset" => Drained(pre.sap, pre.done))
    /\ [](last.op = "pop" => last.err = "none")
    /\ []((last.op = "pop" /\ ~CacheBool) => Drained(deque_sap, LastAddDone))
    /\ []<>(~CacheBool)

\* n = 2: the third add had done = True and the drain that followed popped all
\* three steps
C27_Witness ==
    /\ n = 2 /\ last.op = "pop" /\ last.err = "none"
    /\ Len(hist) = 3 /\ hist[3].done /\ ~hist[1].done /\ ~hist[2].done
    /\ pops = 3 /\ deque_sap = <<>> /\ Len(pre.sap) = 1

====
